---- MODULE Spec2Model ----
(***************************************************************************)
(* The file-backed record store of svio19/nodeserver1 and the HTTP routes  *)
(* layered on it, in its three variants:                                   *)
(*   "server"   src/server.js           items + request audit, anonymous   *)
(*   "part000"  src/unnamed/part_000    items + request audit, user info   *)
(*   "part001"  src/unnamed/part_001    conversations, no request audit    *)
(* One step of the model is one fs.promises call of a request together     *)
(* with the synchronous code that runs up to the next such call: these are *)
(* the points where Node interleaves requests.                             *)
(***************************************************************************)
EXTENDS Integers, Sequences, FiniteSets, TLC

\* ---------------------------------------------------------------- bounds
\* Requests that may be in flight at the same time.
MaxInFlight == 2
\* Requests accepted in one behaviour.
MaxRequests == 2
\* Largest value Date.now() takes.
MaxClock == 1
\* File-system calls that fail (EIO, ENOSPC, EACCES) in one behaviour.
MaxFaults == 1
\* External modifications of a document file in one behaviour.
MaxCorrupt == 1
\* Restarts of the process in one behaviour.
MaxRestarts == 1
\* Requests accepted in one behaviour when every behaviour is followed to
\* its end.
MaxLive == 1

Slots == 1..MaxInFlight

Variants == {"server", "part000", "part001"}

\* ------------------------------------------------------------ constants
DATA_FILE == "storage.json"
REQUESTS_FILE == "requests.json"
Files == {DATA_FILE, REQUESTS_FILE}

\* The anonymous sentinel of each variant.
ANONYMOUS_USER(v) == IF v = "part001" THEN "anonymous" ELSE "anonymous_user"

\* ------------------------------------------------------ values and text
\* A parsed JSON value, as far as the code distinguishes them:
\*   "null"    null                      "prim"    a number, string, boolean
\*   "nokey"   an object without the collection key
\*   "falsy"   an object whose key holds a falsy non-array (0, "", null)
\*   "nonseq"  an object whose key holds a truthy non-array ("x", 5, {})
\*   "arr"     an object whose key holds the array recs
\* "none" stands for no value at all.
NoDoc == [k |-> "none", recs |-> <<>>]
JsonKinds == {"null", "prim", "nokey", "falsy", "nonseq", "arr"}

\* The content of a file: absent, empty (truncated), unparseable text, or
\* the text of a JSON value.
Absent == [t |-> "absent", v |-> NoDoc]
Empty == [t |-> "empty", v |-> NoDoc]
Garbage == [t |-> "garbage", v |-> NoDoc]
JsonText(v) == [t |-> "json", v |-> v]

\* A property whose value is undefined is left out of the text.
StringifyRecord(r) ==
  IF r.content = "undefined" THEN [r EXCEPT !.content = "omitted"] ELSE r

\* JSON.stringify(data, null, 2)
Stringify(d) ==
  JsonText([d EXCEPT !.recs = [i \in DOMAIN d.recs |-> StringifyRecord(d.recs[i])]])

\* JSON.parse(data): the value, or a SyntaxError.
JSONparse(txt) ==
  IF txt.t = "json" THEN [ok |-> TRUE, v |-> txt.v] ELSE [ok |-> FALSE, v |-> NoDoc]

\* initialData.storage, initialData.requests, initialStorage: { <key>: [] }
CanonicalEmpty == [k |-> "arr", recs |-> <<>>]

\* The try block of readData: parse, then give a missing or falsy key an
\* empty array.  null.items throws a TypeError, caught like a SyntaxError;
\* an assignment to a property of a primitive does nothing.
readDataTry(txt) ==
  LET p == JSONparse(txt) IN
  IF ~p.ok \/ p.v.k = "null" THEN [ok |-> FALSE, v |-> NoDoc]
  ELSE IF p.v.k \in {"nokey", "falsy"} THEN [ok |-> TRUE, v |-> CanonicalEmpty]
  ELSE [ok |-> TRUE, v |-> p.v]

\* The body of readStorage's try block: no validation at all.
readStorageTry(txt) == JSONparse(txt)

\* getUserInfo(req) of part_000; the other variants store one string.
getUserInfo(v, email, name) ==
  IF v = "part000"
  THEN IF email # "undefined"
       THEN [email |-> email, name |-> IF name # "undefined" THEN name ELSE "Unknown"]
       ELSE [email |-> ANONYMOUS_USER(v), name |-> "Anonymous"]
  ELSE IF v = "part001"
       THEN [email |-> IF email # "undefined" THEN email ELSE ANONYMOUS_USER(v),
             name |-> "none"]
       ELSE [email |-> ANONYMOUS_USER(v), name |-> "none"]

\* The check on content left out: no body is taken to lack its content.
ContentNeverMissing(content) == FALSE

\* !content of part_001's POST /items.
MissingContent(content) == content = "undefined"

\* storage.conversations.filter(conv => conv.user === req.params.email)
FilterByUser(recs, email) == SelectSeq(recs, LAMBDA r : r.user.email = email)

\* An unlink that leaves the backup file where it is.
BackupKept(b, d) == b

\* fs.unlink(backupFile), when it succeeds.
Unlinked(b, d) == [b EXCEPT ![d] = Absent]

\* A copy that reports success and writes nothing.
NothingCopied(b, f, d) == b

\* fs.copyFile(filename, backupFile), when it succeeds.
Copied(b, f, d) == [b EXCEPT ![d] = f[d]]

\* ----------------------------------------------------------------- state
VARIABLES
  variant,      \* which of the three programs runs
  file,         \* file[d]: the content of document file d
  backup,       \* backup[d]: the content of d's .backup sibling
  initialData,  \* the in-memory canonical empty objects, shared by reference
  clock,        \* the last value Date.now() returned
  req,          \* req[p]: the request handled in slot p
  nreq,         \* requests accepted so far
  faults,       \* file-system calls that have failed so far
  ncorrupt,     \* external modifications so far
  wfail,        \* wfail[d]: a step of a write to d has failed with an I/O error
  lastw,        \* lastw[d]: the Document the last completed write of d was given,
                \* NoDoc once anything else has touched the file
  boot          \* where startServer is: its step, the file it is at, restarts so far

vars == <<variant, file, backup, initialData, clock, req, nreq, faults, ncorrupt, wfail, lastw, boot>>

NoBody == [k |-> "none", recs |-> <<>>]

IdleReq ==
  [pc |-> "idle", phase |-> "none", route |-> "none", content |-> "undefined",
   email |-> "undefined", name |-> "undefined", doc |-> DATA_FILE,
   alias |-> FALSE, val |-> NoDoc, buf |-> Absent, rec |-> FALSE, nlog |-> 0,
   status |-> 0, body |-> NoBody,
   \* observed of the request, for the properties below:
   pre |-> Absent,      \* the item document's file when the request arrived
   ret |-> NoDoc,       \* what the store read of the current phase returned
   sawbad |-> FALSE,    \* the route's read found unparseable text
   ovl    |-> FALSE,    \* the route's copy ran while another request was in its write
   logfail |-> FALSE,   \* an append to error.log failed for this request
   wpre   |-> Absent]   \* what the current write's backup copy copied, if it succeeded

Routes(v) ==
  IF v = "part001" THEN {"POST /items", "GET /items", "GET /items/user"}
  ELSE {"POST /items", "GET /items", "GET /requests"}

Contents == {"undefined", "c1"}
Emails == {"undefined", "u1"}
Params == {"u1", "u2"}
Names == {"undefined", "n1"}

\* The document a route reads.
RouteDoc(route) == IF route = "GET /requests" THEN REQUESTS_FILE ELSE DATA_FILE

\* startServer has called app.listen: requests are accepted.
Listening == [pc |-> "listening", i |-> 0, n |-> 0]

\* The state after initializeFileSystem / initializeFiles on a fresh data
\* directory and app.listen: both files seeded, no backup, no request.
Init ==
  /\ variant \in Variants
  /\ file = [d \in Files |-> Stringify(CanonicalEmpty)]
  /\ backup = [d \in Files |-> Absent]
  /\ initialData = [d \in Files |-> CanonicalEmpty]
  /\ clock = 0
  /\ req = [p \in Slots |-> IdleReq]
  /\ nreq = 0
  /\ faults = 0
  /\ ncorrupt = 0
  /\ wfail = [d \in Files |-> FALSE]
  /\ lastw = [d \in Files |-> NoDoc]
  /\ boot = Listening

InFlight(p) == req[p].pc \notin {"idle", "done"}

\* A request is inside writeData / writeStorage of document d.
Writing(p, d) == req[p].pc \in {"copy", "open", "wdata", "unlink"} /\ req[p].doc = d

\* ------------------------------------------------- synchronous handler code
\* res.status(s).json(body): the request is answered.
Respond(r, s, body) ==
  [IdleReq EXCEPT !.pc = "done", !.phase = r.phase, !.route = r.route,
                  !.content = r.content, !.email = r.email, !.name = r.name,
                  !.status = s, !.body = body, !.pre = r.pre, !.ret = r.ret,
                  !.sawbad = r.sawbad, !.ovl = r.ovl, !.logfail = r.logfail]

\* An error that no catch block receives: the handler's promise rejects
\* and nothing is sent.
RaiseUncaught(r, n) == [r EXCEPT !.pc = "lost"]

\* An error on its way to a 500 through n appends to data/logs/error.log
\* (safeFileOperation's catch, nested once for the recovery write; logError
\* in part_001's route catch blocks).
Raise(r, n) ==
  [r EXCEPT !.pc = "logerr", !.nlog = n, !.alias = FALSE, !.val = NoDoc,
            !.buf = Absent, !.rec = FALSE]

ErrBody == [k |-> "err", recs |-> <<>>]

\* res.json(data.items) / res.json(storage.conversations): the body sent.
ResJson(d) ==
  IF d.k = "arr" THEN [k |-> "arr", recs |-> d.recs]
  ELSE IF d.k \in {"prim", "nokey"} THEN NoBody
  ELSE [k |-> "other", recs |-> <<>>]

\* The record logRequest or POST /items builds: id: Date.now(), the resolved
\* user, and the content (for an audit record, the method and path).
NewRecord(v, r, now) ==
  [id |-> now,
   content |-> IF r.phase = "route" THEN r.content ELSE r.route,
   user |-> getUserInfo(v, r.email, r.name)]

\* Whether the code following the read appends a record to what it read.
Appends(v, r) ==
  \/ r.phase \in {"log", "log2"}
  \/ r.route = "POST /items" /\ ~(v = "part001" /\ MissingContent(r.content))

\* The code that runs once readData / readStorage has returned, up to the
\* next file-system call or the response.  al: the value returned is the
\* shared initialData object itself (by reference), else the fresh value val.
\* now: what Date.now() returns if it is called.  Gives the request's next
\* state, the next initialData and whether Date.now() was called.
AfterRead(v, r0, al, val, idata, now) ==
  LET d == IF al THEN idata[r0.doc] ELSE val
      r == [r0 EXCEPT !.ret = d, !.rec = FALSE]
      item == NewRecord(v, r, now)
  IN
  IF Appends(v, r)
  THEN IF d.k = "arr"
       THEN \* data.items.push(newItem); writeData(...) is called
            [req |-> [r EXCEPT !.pc = "copy", !.alias = al,
                               !.val = IF al THEN NoDoc
                                       ELSE [d EXCEPT !.recs = Append(@, item)],
                               !.body = IF r.phase = "route"
                                        THEN [k |-> "rec", recs |-> <<StringifyRecord(item)>>]
                                        ELSE NoBody],
             idata |-> IF al THEN [idata EXCEPT ![r.doc].recs = Append(@, item)]
                       ELSE idata,
             timed |-> TRUE]
       ELSE \* TypeError: push of something that is no array
            [req |-> IF v = "part001" THEN Raise(r, 1) ELSE Respond(r, 500, ErrBody),
             idata |-> idata, timed |-> FALSE]
  ELSE IF r.route = "POST /items"
  THEN [req |-> Respond(r, 400, ErrBody), idata |-> idata, timed |-> FALSE]
  ELSE IF r.route = "GET /items/user"
  THEN [req |-> IF d.k = "arr"
                THEN Respond(r, 200, [k |-> "arr", recs |-> FilterByUser(d.recs, r.email)])
                ELSE Raise(r, 1),
        idata |-> idata, timed |-> FALSE]
  ELSE [req |-> IF d.k = "null" THEN Raise(r, 1) ELSE Respond(r, 200, ResJson(d)),
        idata |-> idata, timed |-> FALSE]

\* next() of logRequest: the next middleware or the route handler starts
\* with its store read.  part_000 registers logRequest twice (lines 69, 158).
NextPhase(v, r) ==
  LET ph == IF v = "part000" /\ r.phase = "log" THEN "log2" ELSE "route" IN
  [r EXCEPT !.pc = "read", !.phase = ph,
            !.doc = IF ph = "route" THEN RouteDoc(r.route) ELSE REQUESTS_FILE,
            !.alias = FALSE, !.val = NoDoc, !.buf = Absent, !.ret = NoDoc,
            !.body = NoBody, !.wpre = Absent]

\* The code that runs once writeData / writeStorage has returned normally.
AfterWrite(v, r, idata, now) ==
  IF r.rec THEN AfterRead(v, r, TRUE, NoDoc, idata, now)
  ELSE IF r.phase = "route"
  THEN [req |-> Respond(r, 201, r.body), idata |-> idata, timed |-> FALSE]
  ELSE [req |-> NextPhase(v, r), idata |-> idata, timed |-> FALSE]

\* ------------------------------------------------------------- actions
\* A request arrives and takes the first free slot; the slots of answered
\* requests are cleared.  lim: how many requests may be in flight.
Begin(p, lim) ==
  /\ boot.pc = "listening"
  /\ nreq < MaxRequests
  /\ ~InFlight(p)
  /\ \A q \in Slots : q < p => InFlight(q)
  /\ Cardinality({q \in Slots : InFlight(q)}) < lim
  /\ \E route \in Routes(variant), c \in Contents, e \in Emails \cup Params, n \in Names :
       /\ route # "POST /items" => c = "undefined" /\ n = "undefined"
       /\ IF route = "GET /items/user" THEN e \in Params
          ELSE IF route = "POST /items" THEN e \in Emails   \* req.body.user.email
          ELSE e = "undefined"
       /\ (e = "undefined" \/ variant # "part000") => n = "undefined"
       /\ req' = [q \in Slots |->
                    IF q = p
                    THEN [IdleReq EXCEPT !.pc = "read",
                                         !.phase = IF variant = "part001" THEN "route" ELSE "log",
                                         !.route = route, !.content = c, !.email = e, !.name = n,
                                         !.doc = IF variant = "part001" THEN RouteDoc(route)
                                                 ELSE REQUESTS_FILE,
                                         !.pre = file[DATA_FILE]]
                    ELSE IF InFlight(q) THEN req[q] ELSE IdleReq]
  /\ nreq' = nreq + 1
  /\ UNCHANGED <<variant, boot, file, backup, initialData, clock, faults, ncorrupt, wfail, lastw>>

\* Something outside the service deletes a document file or replaces its
\* content (the spec's "deliberately corrupted store file").
ExternalKinds == {"null", "prim", "nokey", "nonseq"}
Corrupt(d) ==
  /\ ncorrupt < MaxCorrupt
  /\ variant = "part001" => d = DATA_FILE
  /\ \E c \in {Absent, Garbage} \cup {JsonText([k |-> k, recs |-> <<>>]) : k \in ExternalKinds} :
       /\ c # file[d]
       /\ file' = [file EXCEPT ![d] = c]
  /\ ncorrupt' = ncorrupt + 1
  /\ lastw' = [lastw EXCEPT ![d] = NoDoc]
  /\ UNCHANGED <<variant, boot, backup, initialData, clock, req, nreq, faults, wfail>>

\* What Date.now() may return: time does not run backwards.
Nows == {t \in {clock, clock + 1} : t <= MaxClock}

\* fs.readFile of readData / readStorage completes, and the code after it
\* runs up to the next file-system call.
ReadStep(p) ==
  /\ req[p].pc = "read"
  /\ LET r0 == req[p]
         txt == file[r0.doc]
     IN
     \E fault \in BOOLEAN, now \in Nows :
       LET r == [r0 EXCEPT !.sawbad = ~fault /\ r0.phase = "route"
                                      /\ txt.t \in {"empty", "garbage"}]
       IN
       /\ fault => faults < MaxFaults
       /\ faults' = IF fault THEN faults + 1 ELSE faults
       /\ LET res ==
                IF variant = "part001"
                THEN \* readStorage: any error gives initialStorage itself
                     IF fault \/ txt.t = "absent" \/ ~readStorageTry(txt).ok
                     THEN AfterRead(variant, r, TRUE, NoDoc, initialData, now)
                     ELSE AfterRead(variant, r, FALSE, readStorageTry(txt).v, initialData, now)
                ELSE \* readData
                     IF fault \/ txt.t = "absent"
                     THEN [req |-> Raise(r, 1), idata |-> initialData, timed |-> FALSE]
                     ELSE IF readDataTry(txt).ok
                     THEN AfterRead(variant, r, FALSE, readDataTry(txt).v, initialData, now)
                     ELSE \* catch: writeData(filename, initialState)
                          [req |-> [r EXCEPT !.pc = "copy", !.rec = TRUE, !.alias = TRUE],
                           idata |-> initialData, timed |-> FALSE]
          IN /\ res.timed \/ now = clock
             /\ req' = [req EXCEPT ![p] = res.req]
             /\ initialData' = res.idata
             /\ clock' = now
  /\ UNCHANGED <<variant, boot, file, backup, nreq, ncorrupt, wfail, lastw>>

\* The document a request's write is given: the shared object or its own.
DataOf(r) == IF r.alias THEN initialData[r.doc] ELSE r.val

\* fs.copyFile(filename, backupFile) completes; on success, or in readData's
\* variants on failure too, fs.writeFile is called with the document's text.
CopyStep(p) ==
  /\ req[p].pc = "copy"
  /\ LET r == req[p]
         d == r.doc
         o == r.phase = "route" /\ \E q \in Slots \ {p} : Writing(q, d)
     IN
     \E fault \in BOOLEAN :
       /\ fault => faults < MaxFaults
       /\ faults' = IF fault THEN faults + 1 ELSE faults
       /\ wfail' = IF fault THEN [wfail EXCEPT ![d] = TRUE] ELSE wfail
       /\ IF ~fault /\ file[d].t # "absent"
          THEN /\ backup' = Copied(backup, file, d)
               /\ req' = [req EXCEPT ![p] = [r EXCEPT !.pc = "open", !.ovl = o,
                                                      !.wpre = file[d],
                                                      !.buf = Stringify(DataOf(r))]]
          ELSE /\ backup' = backup
               /\ req' = [req EXCEPT ![p] =
                            IF variant = "part001"
                            THEN Raise(r, 1)
                            ELSE [r EXCEPT !.pc = "open", !.wpre = Absent,
                                           !.buf = Stringify(DataOf(r))]]
  /\ UNCHANGED <<variant, boot, file, initialData, clock, nreq, ncorrupt, lastw>>

\* How many times a failed write is logged before the request is answered:
\* the recovery write of readData sits inside two safeFileOperation calls.
LogsOf(r) == IF variant # "part001" /\ r.rec THEN 2 ELSE 1

\* fs.writeFile opens the file with flag 'w': the file is truncated (and
\* created when absent) before any byte is written.
OpenStep(p) ==
  /\ req[p].pc = "open"
  /\ LET r == req[p]
         d == r.doc
     IN
     \E fault \in BOOLEAN :
       /\ fault => faults < MaxFaults
       /\ faults' = IF fault THEN faults + 1 ELSE faults
       /\ wfail' = IF fault THEN [wfail EXCEPT ![d] = TRUE] ELSE wfail
       /\ IF fault
          THEN /\ file' = file
               /\ lastw' = lastw
               /\ req' = [req EXCEPT ![p] = Raise(r, LogsOf(r))]
          ELSE /\ file' = [file EXCEPT ![d] = Empty]
               /\ lastw' = [lastw EXCEPT ![d] = NoDoc]
               /\ req' = [req EXCEPT ![p] = [r EXCEPT !.pc = "wdata"]]
  /\ UNCHANGED <<variant, boot, backup, initialData, clock, nreq, ncorrupt>>

\* What the file holds once buf has been written at offset 0 of a file that
\* holds cur: buf itself when the file was empty; when another writer (or an
\* external edit) put text there after this writer's truncation, buf or, if
\* that text was longer, buf followed by its tail.
Overwritten(cur, buf) ==
  IF cur.t = "absent" THEN {Absent}
  ELSE IF cur = Empty \/ cur = buf THEN {buf}
  ELSE {buf, Garbage}

\* fs.writeFile writes the text.
WriteStep(p) ==
  /\ req[p].pc = "wdata"
  /\ LET r == req[p]
         d == r.doc
     IN
     \E fault \in BOOLEAN :
       /\ fault => faults < MaxFaults
       /\ faults' = IF fault THEN faults + 1 ELSE faults
       /\ wfail' = IF fault THEN [wfail EXCEPT ![d] = TRUE] ELSE wfail
       /\ IF fault
          THEN /\ file' = file
               /\ req' = [req EXCEPT ![p] = Raise(r, LogsOf(r))]
          ELSE /\ \E c \in Overwritten(file[d], r.buf) : file' = [file EXCEPT ![d] = c]
               /\ req' = [req EXCEPT ![p] = [r EXCEPT !.pc = "unlink"]]
       /\ lastw' = [lastw EXCEPT ![d] = NoDoc]
  /\ UNCHANGED <<variant, boot, backup, initialData, clock, nreq, ncorrupt>>

\* Whether a Document has a text that parses back to it.
Representable(d) == \A i \in DOMAIN d.recs : d.recs[i].content # "undefined"

\* fs.unlink(backupFile) completes; writeData returns whatever it did,
\* writeStorage throws when it failed; then the caller's code runs.
UnlinkStep(p) ==
  /\ req[p].pc = "unlink"
  /\ LET r == req[p]
         d == r.doc
     IN
     \E fault \in BOOLEAN, now \in Nows :
       /\ fault => faults < MaxFaults
       /\ faults' = IF fault THEN faults + 1 ELSE faults
       /\ wfail' = IF fault THEN [wfail EXCEPT ![d] = TRUE] ELSE wfail
       /\ LET ok == ~fault /\ backup[d].t # "absent"
              res == IF ~ok /\ variant = "part001"
                     THEN [req |-> Raise(r, 1), idata |-> initialData, timed |-> FALSE]
                     ELSE AfterWrite(variant, [r EXCEPT !.buf = Absent], initialData, now)
          IN /\ res.timed \/ now = clock
             /\ clock' = now
             /\ backup' = IF ok THEN Unlinked(backup, d) ELSE backup
             /\ req' = [req EXCEPT ![p] = res.req]
             /\ initialData' = res.idata
             /\ lastw' = [lastw EXCEPT ![d] =
                            IF (ok \/ variant # "part001") /\ file[d] = r.buf
                               /\ Representable(DataOf(r))
                               /\ \A q \in Slots \ {p} : ~Writing(q, d)
                            THEN DataOf(r) ELSE NoDoc]
  /\ UNCHANGED <<variant, boot, file, nreq, ncorrupt>>

\* A failed append rejecting out of the catch block that awaits it: the
\* handler ends there and sends nothing.
LoggedOrThrown(r, failed) ==
  IF failed THEN [r EXCEPT !.pc = "done", !.logfail = TRUE]
  ELSE IF r.nlog > 1 THEN [r EXCEPT !.nlog = r.nlog - 1]
  ELSE Respond(r, 500, ErrBody)

\* The request once fs.appendFile(error.log).catch(console.error) has
\* settled: a failed append is printed and nothing else; the error being
\* logged is rethrown to the next catch block or answered with 500.
Logged(r, failed) ==
  LET l == [r EXCEPT !.logfail = r.logfail \/ failed] IN
  IF l.nlog > 1 THEN [l EXCEPT !.nlog = l.nlog - 1]
  ELSE Respond(l, 500, ErrBody)

\* fs.appendFile to data/logs/error.log completes (a failure goes to
\* console.error); after the last one the request is answered with 500.
LogStep(p) ==
  /\ req[p].pc = "logerr"
  /\ LET r == req[p] IN
     \E fault \in BOOLEAN :
       /\ fault => faults < MaxFaults
       /\ faults' = IF fault THEN faults + 1 ELSE faults
       /\ req' = [req EXCEPT ![p] = Logged(r, fault)]
  /\ UNCHANGED <<variant, boot, file, backup, initialData, clock, nreq, ncorrupt, wfail, lastw>>

Step(p) ==
  \/ ReadStep(p)
  \/ CopyStep(p)
  \/ OpenStep(p)
  \/ WriteStep(p)
  \/ UnlinkStep(p)
  \/ LogStep(p)

\* The service with its requests handled one at a time, as the store
\* assumes (a single logical writer): file-system calls may fail and the
\* document files may be modified from outside.
Next ==
  \/ \E p \in Slots : Begin(p, 1)
  \/ \E p \in Slots : Step(p)
  \/ \E d \in Files : Corrupt(d)

Spec == Init /\ [][Next]_vars

\* server.js and part_001 with requests in flight at the same time and no
\* modification from outside.
InitConc == Init /\ variant # "part000"

NextConc ==
  \/ \E p \in Slots : Begin(p, MaxInFlight)
  \/ \E p \in Slots : Step(p)

SpecConc == InitConc /\ [][NextConc]_vars

\* Two POST /items arrive together after one POST /items was handled at
\* time 0: the item document holds that item, the requests document its
\* audit records.  Nothing else arrives, nothing is modified from outside
\* and no file-system call fails.
RaceSlots == {1, 2}
RaceFirst(v, ph) ==
  NewRecord(v, [IdleReq EXCEPT !.phase = ph, !.route = "POST /items", !.content = "c0"], 0)
RaceItems == <<RaceFirst(variant, "route")>>
RaceAudit ==
  IF variant = "part001" THEN <<>>
  ELSE IF variant = "part000" THEN <<RaceFirst(variant, "log"), RaceFirst(variant, "log2")>>
  ELSE <<RaceFirst(variant, "log")>>

InitRace ==
  /\ variant \in Variants
  /\ file = [d \in Files |->
               Stringify([k |-> "arr",
                          recs |-> IF d = DATA_FILE THEN RaceItems ELSE RaceAudit])]
  /\ backup = [d \in Files |-> Absent]
  /\ initialData = [d \in Files |-> CanonicalEmpty]
  /\ clock = 0
  /\ req = [p \in Slots |->
              IF p \in RaceSlots
              THEN [IdleReq EXCEPT !.pc = "read",
                                   !.phase = IF variant = "part001" THEN "route" ELSE "log",
                                   !.route = "POST /items",
                                   !.content = IF p = 1 THEN "c1" ELSE "c2",
                                   !.doc = IF variant = "part001" THEN DATA_FILE
                                           ELSE REQUESTS_FILE,
                                   !.pre = file[DATA_FILE]]
              ELSE IdleReq]
  /\ nreq = 3
  /\ faults = MaxFaults   \* no file-system call fails in the race
  /\ ncorrupt = 0
  /\ wfail = [d \in Files |-> FALSE]
  /\ lastw = [d \in Files |-> NoDoc]
  /\ boot = Listening

NextRace == \E p \in Slots : Step(p)

SpecRace == InitRace /\ [][NextRace]_vars

\* The sequential service in which every file-system call that has been
\* issued completes, with success or with an error: the pending call of a
\* request in flight is the one step enabled for it.
BeginLive(p) == nreq < MaxLive /\ Begin(p, 1)

NextLive ==
  \/ \E p \in Slots : BeginLive(p)
  \/ \E p \in Slots : Step(p)
  \/ \E d \in Files : Corrupt(d)

SpecLive == Init /\ [][NextLive]_vars /\ \A p \in Slots : WF_vars(Step(p))

\* ------------------------------------------------------------- startup
\* The files initializeFileSystem / initializeFiles goes through, in order.
InitFiles(v) == IF v = "part001" THEN <<DATA_FILE>> ELSE <<DATA_FILE, REQUESTS_FILE>>

\* process.exit(1)
Exited(b) == [b EXCEPT !.pc = "exited", !.i = 0]

\* startServer once the file at position i has been dealt with: the next
\* file's fs.access, or app.listen after the last one.
NextFile(b) ==
  IF b.i < Len(InitFiles(variant)) THEN [b EXCEPT !.pc = "access", !.i = b.i + 1]
  ELSE [b EXCEPT !.pc = "listening", !.i = 0]

\* The two fs.mkdir(dir, {recursive: true}) complete; a failure ends the
\* process.
MkdirStep ==
  /\ boot.pc = "mkdir"
  /\ \E fault \in BOOLEAN :
       /\ fault => faults < MaxFaults
       /\ faults' = IF fault THEN faults + 1 ELSE faults
       /\ boot' = IF fault THEN Exited(boot)
                  ELSE IF boot.i < 2 THEN [boot EXCEPT !.i = 2]
                  ELSE NextFile([boot EXCEPT !.i = 0])
  /\ UNCHANGED <<variant, file, backup, initialData, clock, req, nreq, ncorrupt, wfail, lastw>>

\* fs.access(file.path) completes: when it resolves the file is left alone,
\* when it rejects, for whatever reason, the catch block seeds the file.
AccessStep ==
  /\ boot.pc = "access"
  /\ LET d == InitFiles(variant)[boot.i] IN
     \E fault \in BOOLEAN :
       /\ fault => faults < MaxFaults
       /\ faults' = IF fault THEN faults + 1 ELSE faults
       /\ boot' = IF fault \/ file[d].t = "absent" THEN [boot EXCEPT !.pc = "seedopen"]
                  ELSE NextFile(boot)
  /\ UNCHANGED <<variant, file, backup, initialData, clock, req, nreq, ncorrupt, wfail, lastw>>

\* fs.writeFile(file.path, ...) of the seeding opens the file: created or
\* truncated.  A failure ends the process.
SeedOpenStep ==
  /\ boot.pc = "seedopen"
  /\ LET d == InitFiles(variant)[boot.i] IN
     \E fault \in BOOLEAN :
       /\ fault => faults < MaxFaults
       /\ faults' = IF fault THEN faults + 1 ELSE faults
       /\ IF fault
          THEN file' = file /\ lastw' = lastw /\ boot' = Exited(boot)
          ELSE /\ file' = [file EXCEPT ![d] = Empty]
               /\ lastw' = [lastw EXCEPT ![d] = NoDoc]
               /\ boot' = [boot EXCEPT !.pc = "seedwrite"]
  /\ UNCHANGED <<variant, backup, initialData, clock, req, nreq, ncorrupt, wfail>>

\* ... and writes JSON.stringify(file.data, null, 2).
SeedWriteStep ==
  /\ boot.pc = "seedwrite"
  /\ LET d == InitFiles(variant)[boot.i] IN
     \E fault \in BOOLEAN :
       /\ fault => faults < MaxFaults
       /\ faults' = IF fault THEN faults + 1 ELSE faults
       /\ IF fault
          THEN file' = file /\ boot' = Exited(boot)
          ELSE /\ file' = [file EXCEPT ![d] = Stringify(initialData[d])]
               /\ boot' = NextFile(boot)
  /\ UNCHANGED <<variant, backup, initialData, clock, req, nreq, ncorrupt, wfail, lastw>>

\* The process is stopped and started again on the same data directory:
\* the requests in flight and the objects in memory are gone, the files and
\* the clock are not.
Restart ==
  /\ boot.pc \in {"listening", "exited"}
  /\ boot.n < MaxRestarts
  /\ boot' = [pc |-> "mkdir", i |-> 1, n |-> boot.n + 1]
  /\ req' = [p \in Slots |-> IdleReq]
  /\ initialData' = [d \in Files |-> CanonicalEmpty]
  /\ UNCHANGED <<variant, file, backup, clock, nreq, faults, ncorrupt, wfail, lastw>>

\* The process started on an empty data directory.
InitBoot ==
  /\ variant \in Variants
  /\ file = [d \in Files |-> Absent]
  /\ backup = [d \in Files |-> Absent]
  /\ initialData = [d \in Files |-> CanonicalEmpty]
  /\ clock = 0
  /\ req = [p \in Slots |-> IdleReq]
  /\ nreq = 0
  /\ faults = 0
  /\ ncorrupt = 0
  /\ wfail = [d \in Files |-> FALSE]
  /\ lastw = [d \in Files |-> NoDoc]
  /\ boot = [pc |-> "mkdir", i |-> 1, n |-> 0]

\* startServer, then the requests one at a time, with restarts.
NextBoot ==
  \/ MkdirStep
  \/ AccessStep
  \/ SeedOpenStep
  \/ SeedWriteStep
  \/ Restart
  \/ \E p \in Slots : Begin(p, 1)
  \/ \E p \in Slots : Step(p)

SpecBoot == InitBoot /\ [][NextBoot]_vars

\* ------------------------------------------------------------- claims
\* The request in slot p is answered by this step.
Answered(p) == req[p].pc # "done" /\ req'[p].pc = "done"

\* C1: whatever a store read returns is a Document whose collection key
\* holds a sequence, whatever the file held.
C1_ReadReturnsSequence == \A p \in Slots : req[p].ret.k \in {"none", "arr"}

\* C2: a GET /items whose read finds unparseable text is answered with []
\* and leaves the canonical empty shape in the file.
C2_CorruptGetResets ==
  [][\A p \in Slots :
       (Answered(p) /\ req'[p].route = "GET /items" /\ req'[p].sawbad)
         => /\ req'[p].status = 200
            /\ req'[p].body = [k |-> "arr", recs |-> <<>>]
            /\ file'[DATA_FILE] = Stringify(CanonicalEmpty)]_vars

\* The records of sequence s all occur in sequence t.
Within(s, t) == \A i \in DOMAIN s : \E j \in DOMAIN t : t[j] = s[i]

\* C3: once two POST /items that were in flight together have both been
\* answered 201, the item document holds every record it held before and
\* at least one of the two new ones.
C3_RaceLosesAtMostOne ==
  (\A p \in RaceSlots : req[p].pc = "done" /\ req[p].status = 201)
    => /\ file[DATA_FILE].t = "json"
       /\ file[DATA_FILE].v.k = "arr"
       /\ Within(RaceItems, file[DATA_FILE].v.recs)
       /\ \E p \in RaceSlots : Within(req[p].body.recs, file[DATA_FILE].v.recs)

\* The text of the document of text txt with record rec appended.
AppendedText(txt, rec) == JsonText([txt.v EXCEPT !.recs = Append(@, rec)])

\* C4: with requests handled one at a time and no modification from
\* outside, a POST /items answered 201 leaves the item document as it was
\* when the request arrived plus the record of the response at its end,
\* a request answered 200 or 400 leaves it as it was, and GET /items
\* returns its sequence in order.  (The claim says the same of a request
\* answered 500; this statement leaves those out.)
C4_SequentialAppendOnly ==
  [][\A p \in Slots :
       (Answered(p) /\ ncorrupt' = 0 /\ req'[p].status # 500)
         => LET r == req'[p] IN
            /\ IF r.route = "POST /items" /\ r.status = 201
               THEN file'[DATA_FILE] = AppendedText(r.pre, r.body.recs[1])
               ELSE file'[DATA_FILE] = r.pre
            /\ r.route = "GET /items"
                 => r.body = [k |-> "arr", recs |-> r.pre.v.recs]]_vars

\* C5: the ids of the item document's records are strictly increasing.
C5_IdsStrictlyIncreasing ==
  file[DATA_FILE].t = "json"
    => \A i, j \in DOMAIN file[DATA_FILE].v.recs :
         i < j => file[DATA_FILE].v.recs[i].id < file[DATA_FILE].v.recs[j].id

\* A store read of the request in slot p returns in this step.
ReadReturns(p) == req[p].ret = NoDoc /\ req'[p].ret # NoDoc

\* C6: a read that follows a completed write of Document D, with nothing
\* else touching the file in between, returns a Document equal to D.
C6_WriteThenRead ==
  [][\A p \in Slots :
       (ReadReturns(p) /\ lastw[req[p].doc] # NoDoc)
         => req'[p].ret = lastw[req[p].doc]]_vars

\* The backup copy of the write of the request in slot p fails in this
\* step: the call fails, or there is no file to copy.
CopyFails(p) ==
  /\ req[p].pc = "copy"
  /\ req'[p] # req[p]
  /\ faults' # faults \/ file[req[p].doc].t = "absent"

\* C7: when the backup copy fails, the write does not raise: it goes on to
\* overwrite the target file with the Document's text.
C7_CopyFailureNotFatal ==
  [][\A p \in Slots :
       CopyFails(p) => req'[p].pc = "open" /\ req'[p].buf = Stringify(DataOf(req[p]))]_vars

\* C8: while no write to a document is in flight and no step of a write to
\* it has failed with an I/O error, the document has no .backup sibling.
\* (An unlink that finds the backup already removed by a racing write is not
\* counted as a failure, so the states the claim exempts are a subset.)
C8_NoBackupAtRest ==
  \A d \in Files :
    ((\A p \in Slots : ~Writing(p, d)) /\ ~wfail[d]) => backup[d] = Absent

\* Two POST /items have both been answered 201, the backup copy of one
\* having run while the other was inside its write of the same document,
\* and no step of a write has failed.
C8_Witness ==
  /\ \A p \in {1, 2} : req[p].pc = "done" /\ req[p].route = "POST /items"
                       /\ req[p].status = 201
  /\ \E p \in {1, 2} : req[p].ovl
  /\ ~wfail[DATA_FILE]
  /\ backup[DATA_FILE] = Absent

\* The route handler of a POST /items without content is running in slot p.
PostWithoutContent(p) ==
  /\ InFlight(p)
  /\ req[p].route = "POST /items" /\ req[p].phase = "route" /\ req[p].content = "undefined"

\* C9 as claimed, while no file-system call has failed and no file has been
\* modified externally: a POST /items without content is answered 400 and
\* no step of it changes the item document.
C9_MissingContentRejected ==
  [][\A p \in Slots :
       (PostWithoutContent(p) /\ req'[p] # req[p] /\ faults' = 0 /\ ncorrupt' = 0)
         => /\ file'[DATA_FILE] = file[DATA_FILE]
            /\ Answered(p) => req'[p].status = 400]_vars

\* C9 as amended: in the conversation variant (part_001) a POST /items
\* without content is answered 400 by its first step and no step of it
\* changes the item document.
C9_MissingContentRejectedPart001 ==
  [][\A p \in Slots :
       (variant = "part001" /\ PostWithoutContent(p) /\ req'[p] # req[p])
         => /\ file'[DATA_FILE] = file[DATA_FILE]
            /\ Answered(p) /\ req'[p].status = 400]_vars

\* A POST /items without content has been answered 400 by part_001 while
\* the item document holds a record.
C9_Witness ==
  /\ variant = "part001"
  /\ \E p \in Slots :
       /\ req[p].pc = "done" /\ req[p].route = "POST /items"
       /\ req[p].content = "undefined" /\ req[p].status = 400
       /\ req[p].pre.t = "json" /\ req[p].pre.v.recs # <<>>
       /\ file[DATA_FILE] = req[p].pre

\* C10: GET /items/user/:email on a valid item document is answered 200
\* with exactly the document's records of that user, in order, and leaves
\* the document as it is.
C10_FilterByUserExact ==
  [][\A p \in Slots :
       (Answered(p) /\ req'[p].route = "GET /items/user"
          /\ file[DATA_FILE].t = "json" /\ file[DATA_FILE].v.k = "arr")
         => /\ req'[p].status = 200
            /\ req'[p].body = [k |-> "arr",
                               recs |-> FilterByUser(file[DATA_FILE].v.recs, req'[p].email)]
            /\ file' = file]_vars

\* A request without its record that an append failed.
Outcome(r) == [r EXCEPT !.logfail = FALSE]

\* C11: a step in which the append to the error log fails leaves the
\* request, its response status and body, the files and the backups as
\* the same step with a successful append leaves them.
C11_LogFailureAbsorbed ==
  [][\A p \in Slots :
       (req[p].pc = "logerr" /\ req'[p] # req[p] /\ faults' # faults)
         => /\ Outcome(req'[p]) = Outcome(Logged(req[p], FALSE))
            /\ file' = file /\ backup' = backup]_vars

\* A request whose error-log append failed has been answered 500, the
\* status of the error that was being logged.
C11_Witness ==
  \E p \in Slots : req[p].pc = "done" /\ req[p].logfail /\ req[p].status = 500

\* The read or the overwrite of a document fails in this step of the
\* request in slot p.
IoFails(p) ==
  /\ req[p].pc \in {"read", "open", "wdata"}
  /\ req'[p] # req[p]
  /\ faults' # faults

\* C12: a failed read or overwrite of a document sends the request to the
\* error log and from there to a 500 response; it is not answered by that
\* step, and it does not go on with a substitute document.
C12_IoFailureIs500 ==
  [][\A p \in Slots : IoFails(p) => req'[p].pc = "logerr"]_vars

\* startServer has not reached app.listen (or the process has exited).
Starting == boot.pc # "listening"

\* C13: no step of the initialization changes a document file that holds
\* records, so initialization loses no record; when the server starts to
\* listen every expected file exists; and no request is in flight before
\* the server listens.
C13_InitSeedsOnlyAbsent ==
  [][/\ Starting =>
          \A d \in Files :
            (file[d].t = "json" /\ file[d].v.recs # <<>>) => file'[d] = file[d]
     /\ (Starting /\ boot'.pc = "listening") =>
          \A i \in DOMAIN InitFiles(variant) : file'[InitFiles(variant)[i]].t # "absent"
     /\ boot'.pc # "listening" => \A p \in Slots : ~(InFlight(p))']_vars

\* The identity the resolution policy gives a request: the supplied email
\* and name ("Unknown" without a name), or the anonymous sentinel.
ResolvedEmail(r) == IF r.email # "undefined" THEN r.email ELSE ANONYMOUS_USER(variant)
ResolvedName(r) == IF r.name # "undefined" THEN r.name ELSE "Unknown"

\* The last record of the requests document.
LastAudit(txt) == txt.v.recs[Len(txt.v.recs)]

\* C14: the Record of a POST /items answered 201 carries the supplied email
\* (and, where records carry a name, the supplied name or "Unknown"), or
\* the anonymous sentinel when no email is supplied; and the audit record
\* the request appended to the requests document carries the same identity.
C14_UserResolution ==
  [][\A p \in Slots :
       (Answered(p) /\ req'[p].route = "POST /items" /\ req'[p].status = 201)
         => LET r == req'[p]
                item == r.body.recs[1]
                log == file'[REQUESTS_FILE]
            IN /\ item.user.email = ResolvedEmail(r)
               /\ (variant = "part000" /\ r.email # "undefined")
                     => item.user.name = ResolvedName(r)
               /\ (variant # "part001" /\ ncorrupt' = 0 /\ log.t = "json"
                      /\ log.v.k = "arr" /\ log.v.recs # <<>>)
                     => /\ LastAudit(log).content = "POST /items"
                        /\ LastAudit(log).user = item.user]_vars

\* The text of a JSON object that lacks the collection key.
LacksKey(txt) == txt.t = "json" /\ txt.v.k = "nokey"

\* C15: when a store read returns after finding a file whose JSON lacks
\* the collection key, the file holds a Document whose key is a sequence.
C15_MissingKeyPersisted ==
  [][\A p \in Slots :
       (ReadReturns(p) /\ LacksKey(file[req[p].doc]))
         => /\ file'[req[p].doc].t = "json"
            /\ file'[req[p].doc].v.k = "arr"]_vars

\* The overwrite of the write in slot p fails in this step, after a backup
\* copy that succeeded.
OverwriteFails(p) ==
  /\ req[p].pc \in {"open", "wdata"}
  /\ req'[p] # req[p]
  /\ faults' # faults
  /\ req[p].wpre # Absent

\* C16: when the overwrite fails after a successful backup copy and no
\* other write to the document is in flight, the error is raised to the
\* caller and the backup exists, holding what the file held when the write
\* began; it is still there when the request has been answered.
C16_InterruptedWriteLeavesBackup ==
  [][\A p \in Slots :
       LET d == req[p].doc IN
       /\ (OverwriteFails(p) /\ \A q \in Slots \ {p} : ~Writing(q, d))
            => /\ req'[p].pc = "logerr"
               /\ backup'[d] = req[p].wpre
       /\ (req[p].pc = "logerr" /\ req[p].wpre # Absent /\ req'[p] # req[p])
            => /\ backup'[d] = req[p].wpre
               /\ Answered(p) => req'[p].status = 500]_vars

\* A write of a document that held records has failed after truncating
\* the file: the request is on its way to its 500 and the backup holds the
\* records.
C16_Witness ==
  \E p \in Slots :
    /\ req[p].pc = "logerr"
    /\ req[p].wpre.t = "json" /\ req[p].wpre.v.recs # <<>>
    /\ file[req[p].doc] = Empty
    /\ backup[req[p].doc] = req[p].wpre

\* C17: the in-memory canonical empty shape of every document holds an
\* empty sequence.
C17_CanonicalEmptyStaysEmpty ==
  \A d \in Files : initialData[d] = CanonicalEmpty

\* C18: in the item-storage variants, while no file-system call has failed
\* and no file has been modified from outside, the requests document holds
\* one audit record per request handled, and a GET /requests answered 200
\* returns the whole document, its own audit record last.
C18_OneAuditPerRequest ==
  (variant # "part001" /\ faults = 0 /\ ncorrupt = 0 /\ \A p \in Slots : ~InFlight(p))
    => /\ file[REQUESTS_FILE].t = "json"
       /\ Len(file[REQUESTS_FILE].v.recs) = nreq
       /\ \A p \in Slots :
            (req[p].pc = "done" /\ req[p].route = "GET /requests")
              => /\ req[p].status = 200
                 /\ req[p].body.recs = file[REQUESTS_FILE].v.recs
                 /\ LastAudit(file[REQUESTS_FILE]).content = "GET /requests"

\* C19: every request in flight is eventually answered, whichever of its
\* file-system calls fail; and once a request is answered nothing more
\* happens to it (no second response, no retry) until its slot is taken
\* over by a new request.
C19_AnsweredExactlyOnce ==
  /\ \A p \in Slots : InFlight(p) ~> (req[p].pc = "done" /\ req[p].status # 0)
  /\ [][\A p \in Slots :
          (req[p].pc = "done" /\ req'[p] # req[p]) => nreq' = nreq + 1]_vars

\* A request has been answered 500 after a step of its write failed.
C19_Witness ==
  /\ ncorrupt = 0
  /\ \E d \in Files : wfail[d]
  /\ \E p \in Slots : req[p].pc = "done" /\ req[p].status = 500

====
